---- MODULE Spec2Model ----
(***************************************************************************)
(* Electrochemical potential converter (src/app.py).                       *)
(*                                                                         *)
(* The program is a Streamlit script: every user interaction runs the      *)
(* script top to bottom once.  The state is the widget values the          *)
(* framework keeps between runs, st.session_state, and what the last run   *)
(* rendered.  Spec is the application; CoreSpec calls convert_potential    *)
(* and the body of the Convert block directly, on arguments of the         *)
(* caller's choice.                                                        *)
(*                                                                         *)
(* Potentials are Python floats (IEEE-754 binary64).  They are modelled    *)
(* bit-exactly, as sign and magnitude, the magnitude a little-endian tuple *)
(* of NL limbs in base 2^LimbBits counting units of 2^-(LimbBits*FracLimbs)*)
(* volt (2^-75).  The potentials typed and the table's offsets (magnitudes *)
(* from 2^-22 up to 2^30/1000) and all their sums and differences are      *)
(* whole numbers of units, so a sum or difference is computed exactly and  *)
(* then rounded to 53 significant bits, to nearest, ties to even, as the   *)
(* hardware does.                                                          *)
(***************************************************************************)
EXTENDS Integers, Sequences, FiniteSets, TLC

(***************************************************************************)
(* binary64 arithmetic: the float type of potential_value and of the       *)
(* table's offsets, and the + and - of convert_potential.                  *)
(***************************************************************************)
LimbBits == 15
B == 2 ^ LimbBits
NL == 8
FracLimbs == 5
Limbs == 1 .. NL
MantBits == 53

\* A magnitude is a tuple of NL limbs, least significant first.  Tup makes
\* the tuple of a function on Limbs.
RECURSIVE TupFrom(_, _)
TupFrom(f, i) == IF i > NL THEN <<>> ELSE <<f[i]>> \o TupFrom(f, i + 1)

Tup(f) == TupFrom(f, 1)

ZeroMag == Tup([i \in Limbs |-> 0])

RECURSIVE AddFrom(_, _, _, _)
AddFrom(x, y, i, c) ==
    IF i > NL THEN <<>>
    ELSE <<(x[i] + y[i] + c) % B>> \o AddFrom(x, y, i + 1, (x[i] + y[i] + c) \div B)

AddMag(x, y) == AddFrom(x, y, 1, 0)

RECURSIVE SubFrom(_, _, _, _)
SubFrom(x, y, i, c) ==
    IF i > NL THEN <<>>
    ELSE <<(x[i] - y[i] - c + B) % B>>
         \o SubFrom(x, y, i + 1, IF x[i] - y[i] - c < 0 THEN 1 ELSE 0)

\* x - y for x >= y
SubMag(x, y) == SubFrom(x, y, 1, 0)

RECURSIVE BorrowOut(_, _, _, _)
BorrowOut(x, y, i, c) ==
    IF i > NL THEN c
    ELSE BorrowOut(x, y, i + 1, IF x[i] - y[i] - c < 0 THEN 1 ELSE 0)

LeqMag(x, y) == BorrowOut(y, x, 1, 0) = 0

RECURSIVE MulFrom(_, _, _, _)
MulFrom(x, k, i, c) ==
    IF i > NL THEN <<>>
    ELSE <<(x[i] * k + c) % B>> \o MulFrom(x, k, i + 1, (x[i] * k + c) \div B)

\* x * k for a small natural k
MulSmall(x, k) == MulFrom(x, k, 1, 0)

\* long division by a small natural k, from the top limb down: the quotient
\* limbs (most significant first) followed by the remainder
RECURSIVE DivFrom(_, _, _, _)
DivFrom(x, k, i, r) ==
    IF i < 1 THEN <<r>>
    ELSE <<(r * B + x[i]) \div k>> \o DivFrom(x, k, i - 1, (r * B + x[i]) % k)

DivRem(x, k) == DivFrom(x, k, NL, 0)[NL + 1]

\* floor(x / k)
DivSmall(x, k) == Tup([i \in Limbs |-> DivFrom(x, k, NL, 0)[NL + 1 - i]])

TopLimb(x) ==
    IF x = ZeroMag THEN 0 ELSE CHOOSE i \in Limbs :
        x[i] # 0 /\ \A j \in Limbs : j > i => x[j] = 0

BitLenSmall(n) == Cardinality({k \in 0 .. LimbBits - 1 : 2 ^ k <= n})

BitLen(x) ==
    IF x = ZeroMag THEN 0
    ELSE LimbBits * (TopLimb(x) - 1) + BitLenSmall(x[TopLimb(x)])

Bit(x, k) == (x[(k \div LimbBits) + 1] \div (2 ^ (k % LimbBits))) % 2

Pow2Mag(k) ==
    Tup([i \in Limbs |-> IF i = (k \div LimbBits) + 1 THEN 2 ^ (k % LimbBits) ELSE 0])

\* 2^d - 1
OnesBelow(d) ==
    Tup([i \in Limbs |->
        IF LimbBits * i <= d THEN B - 1
        ELSE IF LimbBits * (i - 1) >= d THEN 0
        ELSE 2 ^ (d - LimbBits * (i - 1)) - 1])

ClearBelow(x, d) ==
    Tup([i \in Limbs |->
        IF LimbBits * i <= d THEN 0
        ELSE IF LimbBits * (i - 1) >= d THEN x[i]
        ELSE x[i] - (x[i] % (2 ^ (d - LimbBits * (i - 1))))])

\* floor(x / 2^d)
ShiftRight(x, d) ==
    Tup([i \in Limbs |->
        LET src == i + (d \div LimbBits)
            r == d % LimbBits
            lo == IF src <= NL THEN x[src] \div (2 ^ r) ELSE 0
            hi == IF src + 1 <= NL
                  THEN (x[src + 1] % (2 ^ r)) * (2 ^ (LimbBits - r)) ELSE 0
        IN lo + hi])

\* round to nearest, ties to even, at MantBits significant bits
RoundAt(x, d) ==
    ClearBelow(AddMag(x, IF Bit(x, d) = 1 THEN Pow2Mag(d - 1) ELSE OnesBelow(d - 1)), d)

Round53(x) == IF BitLen(x) <= MantBits THEN x ELSE RoundAt(x, BitLen(x) - MantBits)

Float(n, m) == [neg |-> n, mag |-> m]
FZero == Float(FALSE, ZeroMag)

\* a + b on binary64
fadd(a, b) ==
    IF a.neg = b.neg THEN Float(a.neg, Round53(AddMag(a.mag, b.mag)))
    ELSE IF a.mag = b.mag THEN FZero
    ELSE IF LeqMag(b.mag, a.mag) THEN Float(a.neg, Round53(SubMag(a.mag, b.mag)))
    ELSE Float(b.neg, Round53(SubMag(b.mag, a.mag)))

fneg(a) == IF a.mag = ZeroMag THEN a ELSE Float(~a.neg, a.mag)

\* a - b on binary64
fsub(a, b) == fadd(a, fneg(b))

\* the same sum and difference in exact (unrounded) arithmetic
ExactAdd(a, b) ==
    IF a.neg = b.neg THEN Float(a.neg, AddMag(a.mag, b.mag))
    ELSE IF a.mag = b.mag THEN FZero
    ELSE IF LeqMag(b.mag, a.mag) THEN Float(a.neg, SubMag(a.mag, b.mag))
    ELSE Float(b.neg, SubMag(b.mag, a.mag))

ExactSub(a, b) == ExactAdd(a, fneg(b))

Abs(n) == IF n < 0 THEN -n ELSE n

\* |num| units of one volt
LitNum(num) ==
    Tup([i \in Limbs |->
        IF i = FracLimbs + 1 THEN Abs(num) % B
        ELSE IF i = FracLimbs + 2 THEN Abs(num) \div B
        ELSE 0])

\* q, or q with its last bit set when a remainder r was dropped below it
Sticky(q, r) == IF r # 0 /\ q[1] % 2 = 0 THEN [q EXCEPT ![1] = q[1] + 1] ELSE q

\* The float a decimal literal denotes: the binary64 nearest to num / den
\* (num an integer, den a power of ten up to 10^4, |num| < 2^30).
Lit(num, den) ==
    IF num = 0 THEN FZero
    ELSE Float(num < 0, Round53(Sticky(DivSmall(LitNum(num), den),
                                       DivRem(LitNum(num), den))))

\* f"{x:.3f}": the decimal with three places nearest to x (ties to even on
\* the exact binary value), as sign and count of thousandths; "-0.000" keeps
\* its sign, as Python prints it.
Format3(x) ==
    LET m == MulSmall(x.mag, 1000)
        int == m[FracLimbs + 1] + B * m[FracLimbs + 2]
        half == B \div 2
        low == \E i \in 1 .. FracLimbs - 1 : m[i] # 0
        up == \/ m[FracLimbs] > half
              \/ m[FracLimbs] = half /\ (low \/ int % 2 = 1)
    IN [neg |-> x.neg, mv |-> IF up THEN int + 1 ELSE int]

\* the number a formatted string shows, in thousandths of a volt
Shown(s) == IF s.neg THEN -s.mv ELSE s.mv

\* |a - b| <= 2^-50 * bound, the tolerance of a few roundings at the
\* magnitude `bound` (an exact magnitude, in units)
Within(a, b, bound) == LeqMag(ExactSub(a, b).mag, ShiftRight(bound, MantBits - 3))

(***************************************************************************)
(* The program's state.                                                    *)
(***************************************************************************)
VARIABLES
    REFERENCE_POTENTIALS, \* the module-level dict, as its list of (key, value) items
    potential_value,      \* value of the number_input widget
    from_ref,             \* value of the "From Reference Electrode" selectbox
    to_ref,               \* value of the "To Reference Electrode" selectbox
    session_state,        \* st.session_state: a function on the keys present
    success_box,          \* the st.success message of the last run, or None
    exception,            \* the uncaught exception the last run showed, or None
    rerun_requested,      \* st.experimental_rerun() was called: a run is queued
    swap_intent,          \* history variable: the selections (from, to) the user
                          \* last asked to swap, until a selection changes or a
                          \* conversion is made
    call,                 \* direct call of convert_potential: its arguments
    result,               \* what that call returned or raised
    back                  \* what the call converting the result back returned

vars == <<REFERENCE_POTENTIALS, potential_value, from_ref, to_ref, session_state,
          success_box, exception, rerun_requested, swap_intent, call, result, back>>

appVars == <<potential_value, from_ref, to_ref, success_box, rerun_requested,
             swap_intent>>

coreVars == <<call, result, back>>

\* Python's None, where a message, an exception, a call or a result is absent
None == [none |-> TRUE]
NoMessage == <<>>
NoIntent == <<>>

\* The dict literal: each key with its offset in thousandths of a volt, as
\* the decimal literals are written.
OffsetLiterals == <<
    <<"NHE (Normal Hydrogen)", 0>>,
    <<"SHE (Standard Hydrogen)", 0>>,
    <<"Calomel (Sat'd KCl)", 241>>,
    <<"Calomel (3.5M KCl)", 250>>,
    <<"Calomel (1M KCl)", 280>>,
    <<"Calomel (0.1M KCl)", 334>>,
    <<"Ag/AgCl (Sat'd KCl)", 197>>,
    <<"Ag/AgCl (3.5M KCl)", 205>>,
    <<"Ag/AgCl (3M KCl)", 210>>,
    <<"Ag/AgCl (0.1M KCl)", 288>>,
    <<"Mercury/Mercurous Sulfate (0.5M H₂SO₄)", 682>>,
    <<"Mercury/Mercurous Sulfate (1M H₂SO₄)", 674>>,
    <<"Mercury/Mercurous Sulfate (Sat'd K₂SO₄)", 640>>,
    <<"Hg/HgO (1M NaOH)", 98>>,
    <<"Hg/HgO (20% KOH)", 95>>,
    <<"Silver/Silver Sulfate (Sat'd K₂SO₄)", 654>> >>

\* dict semantics on a list of items
HasKey(d, k) == \E i \in 1 .. Len(d) : d[i][1] = k
Get(d, k) == d[CHOOSE i \in 1 .. Len(d) : d[i][1] = k][2]
Keys(d) == {d[i][1] : i \in 1 .. Len(d)}

\* A later item with an earlier item's key replaces that item's value.
RECURSIVE DictOf(_, _)
DictOf(items, n) ==
    IF n = 0 THEN <<>>
    ELSE IF HasKey(DictOf(items, n - 1), items[n][1])
    THEN LET d == DictOf(items, n - 1)
             at == CHOOSE i \in 1 .. Len(d) : d[i][1] = items[n][1]
         IN [d EXCEPT ![at] = items[n]]
    ELSE Append(DictOf(items, n - 1), items[n])

RECURSIVE FloatItems(_, _)
FloatItems(lits, n) ==
    IF n = 0 THEN <<>>
    ELSE Append(FloatItems(lits, n - 1), <<lits[n][1], Lit(lits[n][2], 1000)>>)

\* Faulty variant of LoadTable: the fourth key written like the third
DuplicateKey(lits) == [lits EXCEPT ![4] = <<lits[3][1], lits[4][2]>>]

LoadTable_duplicate_key ==
    DictOf(FloatItems(DuplicateKey(OffsetLiterals), Len(OffsetLiterals)),
           Len(OffsetLiterals))

\* REFERENCE_POTENTIALS = {...}: executed at the top of every run
LoadTable == DictOf(FloatItems(OffsetLiterals, Len(OffsetLiterals)), Len(OffsetLiterals))

Return(v) == [raised |-> FALSE, value |-> v]
Raise(k) == [raised |-> TRUE, error |-> "KeyError", key |-> k]

\* Faulty variants of convert_potential: the two offsets applied in the
\* opposite directions; the target's offset added; the target's offset not
\* applied; .get(name, 0.0) in place of the subscript.
convert_potential_reversed(potential, from, to) ==
    IF ~HasKey(REFERENCE_POTENTIALS, from) THEN Raise(from)
    ELSE IF ~HasKey(REFERENCE_POTENTIALS, to) THEN Raise(to)
    ELSE Return(fadd(fsub(potential, Get(REFERENCE_POTENTIALS, from)),
                     Get(REFERENCE_POTENTIALS, to)))

convert_potential_added(potential, from, to) ==
    IF ~HasKey(REFERENCE_POTENTIALS, from) THEN Raise(from)
    ELSE IF ~HasKey(REFERENCE_POTENTIALS, to) THEN Raise(to)
    ELSE Return(fadd(fadd(potential, Get(REFERENCE_POTENTIALS, from)),
                     Get(REFERENCE_POTENTIALS, to)))

convert_potential_vs_she(potential, from, to) ==
    IF ~HasKey(REFERENCE_POTENTIALS, from) THEN Raise(from)
    ELSE IF ~HasKey(REFERENCE_POTENTIALS, to) THEN Raise(to)
    ELSE Return(fadd(potential, Get(REFERENCE_POTENTIALS, from)))

DefaultGet(d, k) == IF HasKey(d, k) THEN Get(d, k) ELSE FZero

convert_potential_get(potential, from, to) ==
    Return(fsub(fadd(potential, DefaultGet(REFERENCE_POTENTIALS, from)),
                DefaultGet(REFERENCE_POTENTIALS, to)))

convert_potential(potential, from, to) ==
    IF ~HasKey(REFERENCE_POTENTIALS, from) THEN Raise(from)
    ELSE IF ~HasKey(REFERENCE_POTENTIALS, to) THEN Raise(to)
    ELSE Return(fsub(fadd(potential, Get(REFERENCE_POTENTIALS, from)),
                     Get(REFERENCE_POTENTIALS, to)))

(***************************************************************************)
(* Inputs the model draws from.                                             *)
(***************************************************************************)
\* Potentials the user types into the number_input, or a caller passes, in
\* ten-thousandths of a volt; the widget returns the float nearest to what
\* was typed (its format="%.3f" only affects how the value is displayed).
TypedPotentials == <<3500, 5470, 45, -5000, 625, 12345, -29995>>
NumArgs == 5
Typed(n) == {Lit(TypedPotentials[i], 10000) : i \in 1 .. n}

\* the potentials typed into the application: 0.350 (the default) and 0.0045
AppPotentials == {Lit(3500, 10000), Lit(45, 10000)}

\* Electrodes the user selects between, of the sixteen options offered.
NumSelectable == 2
SelectOrder == <<"Ag/AgCl (Sat'd KCl)", "SHE (Standard Hydrogen)",
                 "Calomel (Sat'd KCl)", "Hg/HgO (20% KOH)">>
Selectable == {SelectOrder[i] : i \in 1 .. NumSelectable}

\* Names a direct caller of convert_potential passes: the table's keys and
\* one name absent from it.
Unknown == "Unobtainium"
CallNames == Keys(LoadTable) \cup {Unknown}

\* pd.Timestamp.now().strftime("%H:%M:%S")
Timestamps == {"10:15:00"}

\* Cap on the length of the conversion history.
MaxHistory == 2

(***************************************************************************)
(* st.session_state                                                        *)
(***************************************************************************)
Has(ss, k) == k \in DOMAIN ss
Del(ss, k) == [x \in DOMAIN ss \ {k} |-> ss[x]]
Put(ss, k, v) == [x \in DOMAIN ss \cup {k} |-> IF x = k THEN v ELSE ss[x]]
NoKeys == <<>>

History(ss) == IF Has(ss, "conversion_history") THEN ss["conversion_history"] ELSE <<>>

(***************************************************************************)
(* The script, block by block.                                             *)
(***************************************************************************)
\* if st.button("Swap References"): the two assignments
SwapBlock(ss, from, to) == Put(Put(ss, "from_ref", to), "to_ref", from)

\* "Apply session state if it exists": the values from_ref and to_ref have
\* after the two ifs, and the session state with the two keys deleted
AppliedFrom(ss, from) == IF Has(ss, "from_ref") THEN ss["from_ref"] ELSE from
AppliedTo(ss, to) == IF Has(ss, "to_ref") THEN ss["to_ref"] ELSE to
\* Faulty variant of ApplyBlock: st.session_state.clear()
ApplyBlock_clear(ss) == NoKeys

ApplyBlock(ss) == Del(Del(ss, "from_ref"), "to_ref")

Message(potential, from, converted, to) ==
    <<Format3(potential), from, Format3(converted), to>>

\* Faulty variant of HistoryEntry: the two references under each other's key
HistoryEntry_swapped(potential, from, to, converted, ts) ==
    [x \in {"Input Potential", "From Reference", "To Reference", "Result", "Timestamp"} |->
        CASE x = "Input Potential" -> Format3(potential)
          [] x = "From Reference" -> to
          [] x = "To Reference" -> from
          [] x = "Result" -> Format3(converted)
          [] x = "Timestamp" -> ts]

HistoryEntry(potential, from, to, converted, ts) ==
    [x \in {"Input Potential", "From Reference", "To Reference", "Result", "Timestamp"} |->
        CASE x = "Input Potential" -> Format3(potential)
          [] x = "From Reference" -> from
          [] x = "To Reference" -> to
          [] x = "Result" -> Format3(converted)
          [] x = "Timestamp" -> ts]

\* Faulty variant of Appended: insert(0, entry)
Appended_front(ss, entry) == Put(ss, "conversion_history", <<entry>> \o History(ss))

\* the history list after the "if 'conversion_history' not in ..." and the
\* append
Appended(ss, entry) == Put(ss, "conversion_history", Append(History(ss), entry))

\* if st.button("Convert"): the body.  An exception of convert_potential
\* leaves the block at its first line.
ConvertOutcome(ss, potential, from, to, ts, r) ==
    IF r.raised
    THEN [session_state |-> ss, success_box |-> NoMessage, exception |-> r]
    ELSE [session_state |-> Appended(ss, HistoryEntry(potential, from, to, r.value, ts)),
          success_box |-> Message(potential, from, r.value, to),
          exception |-> None]

ConvertBlock(ss, potential, from, to, ts) ==
    ConvertOutcome(ss, potential, from, to, ts, convert_potential(potential, from, to))

\* Faulty variant of ClearBlock: conversion_history.pop()
ClearBlock_pop(ss) ==
    Put(ss, "conversion_history", SubSeq(History(ss), 1, Len(History(ss)) - 1))

\* if st.button("Clear History"): the assignment
ClearBlock(ss) == Put(ss, "conversion_history", <<>>)

(***************************************************************************)
(* The application: one action per user interaction, each a script run.    *)
(***************************************************************************)
Init ==
    /\ REFERENCE_POTENTIALS = LoadTable
    /\ potential_value = Lit(350, 1000)
    /\ from_ref = "Ag/AgCl (Sat'd KCl)"
    /\ to_ref = "SHE (Standard Hydrogen)"
    /\ session_state = NoKeys
    /\ success_box = NoMessage
    /\ exception = None
    /\ rerun_requested = FALSE
    /\ swap_intent = NoIntent
    /\ call = None
    /\ result = None
    /\ back = None

\* A run in which no button is pressed.
PlainRun ==
    /\ REFERENCE_POTENTIALS' = LoadTable
    /\ session_state' = ApplyBlock(session_state)
    /\ success_box' = NoMessage
    /\ exception' = None
    /\ rerun_requested' = FALSE

\* The user types a potential.
Edit(v) ==
    /\ ~rerun_requested
    /\ v # potential_value
    /\ potential_value' = v
    /\ PlainRun
    /\ UNCHANGED <<from_ref, to_ref, swap_intent, coreVars>>

\* The user picks another source electrode.
SelectFrom(n) ==
    /\ ~rerun_requested
    /\ n # from_ref
    /\ from_ref' = n
    /\ swap_intent' = NoIntent
    /\ PlainRun
    /\ UNCHANGED <<potential_value, to_ref, coreVars>>

\* The user picks another target electrode.
SelectTo(n) ==
    /\ ~rerun_requested
    /\ n # to_ref
    /\ to_ref' = n
    /\ swap_intent' = NoIntent
    /\ PlainRun
    /\ UNCHANGED <<potential_value, from_ref, coreVars>>

\* The user presses "Swap References": the run ends at experimental_rerun,
\* before the Convert block, so it calls no st.success and shows no exception.
ClickSwap ==
    /\ ~rerun_requested
    /\ REFERENCE_POTENTIALS' = LoadTable
    /\ session_state' = SwapBlock(session_state, from_ref, to_ref)
    /\ success_box' = NoMessage
    /\ exception' = None
    /\ rerun_requested' = TRUE
    /\ swap_intent' = <<from_ref, to_ref>>
    /\ UNCHANGED <<potential_value, from_ref, to_ref, coreVars>>

\* The run st.experimental_rerun() asked for.
Rerun ==
    /\ rerun_requested
    /\ PlainRun
    /\ UNCHANGED <<potential_value, from_ref, to_ref, swap_intent, coreVars>>

\* The user presses "Convert".
ClickConvert(ts) ==
    /\ ~rerun_requested
    /\ Len(History(session_state)) < MaxHistory
    /\ LET out == ConvertBlock(ApplyBlock(session_state), potential_value,
                               AppliedFrom(session_state, from_ref),
                               AppliedTo(session_state, to_ref), ts)
       IN /\ session_state' = out.session_state
          /\ success_box' = out.success_box
          /\ exception' = out.exception
    /\ REFERENCE_POTENTIALS' = LoadTable
    /\ rerun_requested' = FALSE
    /\ swap_intent' = NoIntent
    /\ UNCHANGED <<potential_value, from_ref, to_ref, coreVars>>

\* The user presses "Clear History", which is shown while the history is
\* not empty: the run ends at experimental_rerun.
ClickClear ==
    /\ ~rerun_requested
    /\ History(session_state) # <<>>
    /\ REFERENCE_POTENTIALS' = LoadTable
    /\ session_state' = ClearBlock(ApplyBlock(session_state))
    /\ success_box' = NoMessage
    /\ exception' = None
    /\ rerun_requested' = TRUE
    /\ UNCHANGED <<potential_value, from_ref, to_ref, swap_intent, coreVars>>

Convert == \E ts \in Timestamps : ClickConvert(ts)

Next ==
    \/ \E v \in AppPotentials : Edit(v)
    \/ \E n \in Selectable : SelectFrom(n)
    \/ \E n \in Selectable : SelectTo(n)
    \/ ClickSwap
    \/ Rerun
    \/ Convert
    \/ ClickClear

Spec == Init /\ [][Next]_vars

(***************************************************************************)
(* The conversion core called directly: convert_potential on arguments of  *)
(* the caller's choice, the conversion back, and the body of the Convert   *)
(* block on the same arguments.                                            *)
(***************************************************************************)
\* session states a call may find: none, and the one after a conversion of
\* the defaults
CoreSessions ==
    {NoKeys,
     ConvertBlock(NoKeys, Lit(350, 1000), "Ag/AgCl (Sat'd KCl)",
                  "SHE (Standard Hydrogen)", "10:15:00").session_state}

CoreInit ==
    /\ REFERENCE_POTENTIALS = LoadTable
    /\ potential_value = Lit(350, 1000)
    /\ from_ref = "Ag/AgCl (Sat'd KCl)"
    /\ to_ref = "SHE (Standard Hydrogen)"
    /\ session_state \in CoreSessions
    /\ success_box = NoMessage
    /\ exception = None
    /\ rerun_requested = FALSE
    /\ swap_intent = NoIntent
    /\ call \in [potential : Typed(NumArgs), from_ref : CallNames, to_ref : CallNames]
    /\ result = None
    /\ back = None

CallConvert ==
    /\ result = None
    /\ result' = convert_potential(call.potential, call.from_ref, call.to_ref)
    /\ UNCHANGED <<REFERENCE_POTENTIALS, session_state, exception, appVars, call, back>>

CallBack ==
    /\ result # None
    /\ ~result.raised
    /\ back = None
    /\ back' = convert_potential(result.value, call.to_ref, call.from_ref)
    /\ UNCHANGED <<REFERENCE_POTENTIALS, session_state, exception, appVars, call, result>>

RunConvertBlock ==
    /\ result # None
    /\ success_box = NoMessage
    /\ exception = None
    /\ \E ts \in Timestamps :
        LET out == ConvertBlock(session_state, call.potential, call.from_ref,
                                call.to_ref, ts)
        IN /\ session_state' = out.session_state
           /\ success_box' = out.success_box
           /\ exception' = out.exception
    /\ UNCHANGED <<REFERENCE_POTENTIALS, potential_value, from_ref, to_ref,
                   rerun_requested, swap_intent, coreVars>>

CoreNext == CallConvert \/ CallBack \/ RunConvertBlock

CoreSpec == CoreInit /\ [][CoreNext]_vars

(***************************************************************************)
(* Views of the state the properties are stated on.                        *)
(***************************************************************************)
history == History(session_state)
Last(h) == h[Len(h)]

\* The sidebar's table: a row for each key, with its value formatted '{:.3f}'.
SidebarRow(item) == <<item[1], Format3(item[2])>>
ref_data == [i \in 1 .. Len(REFERENCE_POTENTIALS) |-> SidebarRow(REFERENCE_POTENTIALS[i])]

\* offset of a key in thousandths of a volt, as the sidebar shows it
Offset(k) == Shown(Format3(Get(REFERENCE_POTENTIALS, k)))

Known(k) == HasKey(REFERENCE_POTENTIALS, k)
CallKnown == Known(call.from_ref) /\ Known(call.to_ref)

\* |v| + offset(a) + offset(b): the size of the numbers a conversion adds
Scale(v, a, b) ==
    AddMag(AddMag(v.mag, Get(REFERENCE_POTENTIALS, a).mag),
           Get(REFERENCE_POTENTIALS, b).mag)

\* v + offset(a) - offset(b) in exact arithmetic
ExactConversion(v, a, b) ==
    ExactSub(ExactAdd(v, Get(REFERENCE_POTENTIALS, a)), Get(REFERENCE_POTENTIALS, b))

IsCall(v, a, b) == call = [potential |-> v, from_ref |-> a, to_ref |-> b]

\* the float has at most three decimals: it is the float its own 3-decimal
\* rendering denotes
ThreeDecimals(v) == v = Lit(Shown(Format3(v)), 1000)

(***************************************************************************)
(* Properties of convert_potential, under CoreSpec.                        *)
(***************************************************************************)
AgAgCl == "Ag/AgCl (Sat'd KCl)"
SHE == "SHE (Standard Hydrogen)"

\* C1 as stated: for keys A and B the call returns v + offset(A) - offset(B)
\* (here as the float expression the code evaluates), and the two examples
\* return exactly the floats 0.547 and 0.350.
C1_ExamplesExact ==
    (result # None /\ CallKnown) =>
        /\ ~result.raised
        /\ result.value = fsub(fadd(call.potential,
                                    Get(REFERENCE_POTENTIALS, call.from_ref)),
                               Get(REFERENCE_POTENTIALS, call.to_ref))
        /\ IsCall(Lit(350, 1000), AgAgCl, SHE) => result.value = Lit(547, 1000)
        /\ IsCall(Lit(547, 1000), SHE, AgAgCl) => result.value = Lit(350, 1000)

\* C1 amended: for keys A and B the call returns a value, and the value is
\* the real number v + offset(A) - offset(B) up to floating-point rounding
\* (within 2^-50 of |v| + offset(A) + offset(B)); the two examples return
\* floats that are within that tolerance of 0.547 and of 0.350 and are
\* displayed as 0.547 and 0.350, but are not those floats.
C1_ConvertWithinRounding ==
    (result # None /\ CallKnown) =>
        /\ ~result.raised
        /\ Within(result.value,
                  ExactConversion(call.potential, call.from_ref, call.to_ref),
                  Scale(call.potential, call.from_ref, call.to_ref))
        /\ IsCall(Lit(350, 1000), AgAgCl, SHE) =>
              /\ Within(result.value, Lit(547, 1000), Scale(call.potential, AgAgCl, SHE))
              /\ Format3(result.value) = [neg |-> FALSE, mv |-> 547]
              /\ result.value # Lit(547, 1000)
        /\ IsCall(Lit(547, 1000), SHE, AgAgCl) =>
              /\ Within(result.value, Lit(350, 1000), Scale(call.potential, SHE, AgAgCl))
              /\ Format3(result.value) = [neg |-> FALSE, mv |-> 350]
              /\ result.value # Lit(350, 1000)

C1_Witness ==
    /\ IsCall(Lit(350, 1000), AgAgCl, SHE)
    /\ result # None
    /\ ~result.raised

\* C3 as stated: converting from an electrode to itself returns exactly v.
C3_IdentityExact ==
    (result # None /\ CallKnown /\ call.from_ref = call.to_ref) =>
        ~result.raised /\ result.value = call.potential

\* C3 amended: converting from an electrode R to itself returns v up to
\* floating-point rounding (within 2^-50 of |v| + 2 offset(R)), and exactly v
\* when offset(R) is 0.000.
C3_IdentityWithinRounding ==
    (result # None /\ CallKnown /\ call.from_ref = call.to_ref) =>
        /\ ~result.raised
        /\ Within(result.value, call.potential,
                  Scale(call.potential, call.from_ref, call.to_ref))
        /\ Get(REFERENCE_POTENTIALS, call.from_ref) = FZero =>
              result.value = call.potential

C3_Witness ==
    /\ result # None
    /\ call.from_ref = AgAgCl
    /\ call.to_ref = AgAgCl
    /\ ~result.raised
    /\ result.value # call.potential

\* C4: converting v from A to B and the result back from B to A returns v
\* within floating-point tolerance (within 2^-50 of |v| + offset(A) +
\* offset(B)), for all keys A and B.
C4_RoundTrip ==
    /\ (result # None /\ CallKnown) => ~result.raised
    /\ back # None =>
          /\ ~back.raised
          /\ Within(back.value, call.potential,
                    Scale(call.potential, call.from_ref, call.to_ref))

C4_Witness ==
    /\ back # None
    /\ ~back.raised
    /\ call.from_ref # call.to_ref
    /\ Get(REFERENCE_POTENTIALS, call.from_ref) # Get(REFERENCE_POTENTIALS, call.to_ref)
    /\ back.value # call.potential

\* C5: a conversion with a name that is no key of the table raises
\* (KeyError, naming the missing key) and returns no value, and the Convert
\* block run on such names shows the exception, shows no result and leaves
\* the conversion history as it was.
C5_UnknownElectrode ==
    [][/\ (CallConvert /\ ~CallKnown) =>
            /\ result'.raised
            /\ result'.error = "KeyError"
            /\ result'.key \in {call.from_ref, call.to_ref} \ Keys(REFERENCE_POTENTIALS)
            /\ "value" \notin DOMAIN result'
            /\ session_state' = session_state
       /\ (RunConvertBlock /\ ~CallKnown) =>
            /\ exception' = result
            /\ exception'.raised
            /\ success_box' = NoMessage
            /\ session_state' = session_state
            /\ History(session_state') = history]_vars

C5_Witness ==
    /\ call.from_ref = Unknown
    /\ result # None
    /\ result.raised
    /\ exception = result
    /\ Len(history) = 1

(***************************************************************************)
(* Properties of the application, under Spec.                              *)
(***************************************************************************)
\* the entry a Convert pressed in this state appends
EntryNow(ts) ==
    HistoryEntry(potential_value, from_ref, to_ref,
                 convert_potential(potential_value, from_ref, to_ref).value, ts)

\* C2 as stated: when the user pressed Swap References with the selections
\* (from = A, to = B) and changed no selection since, the next Convert
\* records the conversion from B to A.
C2_SwapThenConvert ==
    [][(Convert /\ swap_intent # NoIntent) =>
          /\ Last(History(session_state'))["From Reference"] = swap_intent[2]
          /\ Last(History(session_state'))["To Reference"] = swap_intent[1]]_vars

\* C6: a Convert appends exactly one record: the history grows by one, the
\* new record is its last element, and the earlier records keep their
\* content and order.
C6_ConvertAppendsOne ==
    [][\A ts \in Timestamps : ClickConvert(ts) =>
          /\ exception' = None
          /\ Len(History(session_state')) = Len(history) + 1
          /\ SubSeq(History(session_state'), 1, Len(history)) = history
          /\ Last(History(session_state')) = EntryNow(ts)]_vars

C6_Witness ==
    /\ Len(history) = 2
    /\ history[1] # history[2]
    /\ success_box # NoMessage

\* C7: a Clear History empties the history whatever its length was, and the
\* history stays empty until the next Convert.
C7_ClearEmpties ==
    [][/\ ClickClear => History(session_state') = <<>>
       /\ (history = <<>> /\ History(session_state') # <<>>) => Convert]_vars

C7_Witness ==
    /\ Has(session_state, "conversion_history")
    /\ history = <<>>
    /\ ~rerun_requested
    /\ swap_intent # NoIntent

\* C8: the reference table is the same in every state: sixteen entries, one
\* per name, SHE among them with offset 0.000 (and shown so in the sidebar),
\* and no step changes it.
C8_TableFixed ==
    /\ [](/\ Len(REFERENCE_POTENTIALS) = 16
          /\ Cardinality(Keys(REFERENCE_POTENTIALS)) = 16
          /\ Known(SHE)
          /\ Get(REFERENCE_POTENTIALS, SHE) = FZero
          /\ DOMAIN ref_data = 1 .. 16
          /\ ref_data[2] = <<SHE, [neg |-> FALSE, mv |-> 0]>>)
    /\ [][REFERENCE_POTENTIALS' = REFERENCE_POTENTIALS]_vars

C8_Witness ==
    /\ Len(REFERENCE_POTENTIALS) = 16
    /\ Len(history) = 1
    /\ rerun_requested
    /\ Has(session_state, "from_ref")

\* C9: the history changes only by a Convert appending one record at its end
\* or by a Clear History emptying it; a Swap References, and the run that
\* follows it, leave it unchanged.
C9_HistoryFrame ==
    [][/\ \/ History(session_state') = history
          \/ /\ Convert
             /\ Len(History(session_state')) = Len(history) + 1
             /\ SubSeq(History(session_state'), 1, Len(history)) = history
          \/ /\ ClickClear
             /\ History(session_state') = <<>>
       /\ (ClickSwap \/ Rerun) => History(session_state') = history]_vars

C9_Witness ==
    /\ Len(history) = 2
    /\ ~rerun_requested
    /\ swap_intent # NoIntent
    /\ success_box = NoMessage

\* the numbers a record shows: result - (input + offset(source) - offset(target))
RecordGap(e) ==
    Shown(e["Result"])
        - (Shown(e["Input Potential"]) + Offset(e["From Reference"])
           - Offset(e["To Reference"]))

\* C10 as stated: every record's names are keys of the table and its result
\* equals its input plus offset(source) minus offset(target).
C10_RecordsExact ==
    \A i \in 1 .. Len(history) :
        /\ Known(history[i]["From Reference"])
        /\ Known(history[i]["To Reference"])
        /\ RecordGap(history[i]) = 0

\* C10 amended: every record's names are keys of the table and its result
\* equals its input plus offset(source) minus offset(target) to within
\* 0.001 V; the record of the conversion on display shows the electrodes and
\* the values displayed, and is exact when the potential entered has at most
\* three decimals.
C10_RecordsConsistent ==
    /\ \A i \in 1 .. Len(history) :
          /\ Known(history[i]["From Reference"])
          /\ Known(history[i]["To Reference"])
          /\ RecordGap(history[i]) \in {-1, 0, 1}
    /\ success_box # NoMessage =>
          /\ history # <<>>
          /\ success_box = <<Last(history)["Input Potential"],
                             Last(history)["From Reference"],
                             Last(history)["Result"],
                             Last(history)["To Reference"]>>
          /\ success_box[1] = Format3(potential_value)
          /\ success_box[2] = from_ref
          /\ success_box[4] = to_ref
          /\ ThreeDecimals(potential_value) => RecordGap(Last(history)) = 0

C10_Witness ==
    /\ success_box # NoMessage
    /\ Len(history) = 2
    /\ RecordGap(history[1]) = 0
    /\ RecordGap(history[2]) # 0

====
